---- MODULE Spec2Model ----
(***************************************************************************)
(* Blogicum (blog application): the relational store of blog/models.py,   *)
(* the URLconf of blog/urls.py and the class-based views of blog/views.py *)
(* with the forms of blog/forms.py.                                        *)
(*                                                                         *)
(* A request is one atomic step: the URLconf turns the path into keyword   *)
(* arguments, the view's dispatch chain runs, and the store and the        *)
(* response are the result.  Feeds are modelled as the set of rows of      *)
(* their queryset (the union of all pages); ordering and page size are     *)
(* not part of the state.  Time is counted in ticks, TicksPerDay ticks to  *)
(* a calendar day, so that the __date lookup of the published manager is   *)
(* a different comparison from the datetime lookup of the views.           *)
(***************************************************************************)
EXTENDS Integers, FiniteSets, Sequences, TLC

\* ---------------------------------------------------------------- bounds
MaxPosts == 2
MaxComments == 1
MaxTime == 1
TicksPerDay == 2

UserIds == {1, 2}
Names == {1, 2}
CategoryIds == {1}
LocationIds == {1}
Texts == {1, 2}

Anonymous == 0
NULL == 0
BLANK == 0

PostIds == 1..MaxPosts
CommentIds == 1..MaxComments
Times == 0..MaxTime

VARIABLES
    users,          \* auth User rows: id -> [username]
    categories,     \* Category rows: slug -> [is_published]
    locations,      \* Location rows (set of ids)
    posts,          \* Post rows: pk -> [author, category, location, is_published, pub_date]
    comments,       \* Comment rows: pk -> [post, author, text]
    next_post,      \* next primary key of the Post table
    next_comment,   \* next primary key of the Comment table
    now,            \* timezone.now()
    response        \* the answer to the last request

vars == <<users, categories, locations, posts, comments,
          next_post, next_comment, now, response>>

\* ------------------------------------------------------- generic helpers
Range(s) == {s[i] : i \in DOMAIN s}

Without(f, S) == [x \in DOMAIN f \ S |-> f[x]]

With(f, k, v) == [x \in DOMAIN f \cup {k} |-> IF x = k THEN v ELSE f[x]]

\* -------------------------------------------------------------- urls.py
\* name of each route -> the keyword arguments its path converters capture
urlpatterns ==
    [index          |-> <<>>,
     create_post    |-> <<>>,
     post_detail    |-> <<"post_pk">>,
     category_posts |-> <<"category_slug">>,
     edit_post      |-> <<"post_pk">>,
     delete_post    |-> <<"post_pk">>,
     add_comment    |-> <<"post_pk">>,
     profile        |-> <<"username">>,
     edit_profile   |-> <<>>,
     edit_comment   |-> <<"post_pk", "comment_id">>,
     delete_comment |-> <<"post_pk", "comment_id">>]

\* the kwargs a view receives when the path of route `name` carries a, b
resolve(name, a, b) ==
    LET params == urlpatterns[name]
    IN  [k \in Range(params) |-> IF k = params[1] THEN a ELSE b]

\* django.urls.reverse: succeeds only when the keyword arguments are exactly
\* the parameters of the route
reverse(name, kwargs) == DOMAIN kwargs = Range(urlpatterns[name])

\* dict.get
Get(kwargs, key) == IF key \in DOMAIN kwargs THEN kwargs[key] ELSE NULL

\* ------------------------------------------------------------ responses
\* the answer of `view` to `user`: the status, the target of a redirect and
\* the rows rendered; the requester is not part of the answer
Resp(view, user, status, to, arg, objects) ==
    [view |-> view, status |-> status,
     to |-> to, arg |-> arg, objects |-> objects]

Ok(view, user, objects)  == Resp(view, user, "ok", "", NULL, objects)
NotFound(view, user)     == Resp(view, user, "not_found", "", NULL, {})
Forbidden(view, user)    == Resp(view, user, "forbidden", "", NULL, {})
ServerError(view, user)  == Resp(view, user, "error", "", NULL, {})
ToLogin(view, user)      == Resp(view, user, "redirect", "login", NULL, {})
Redirect(view, user, name, kwargs, arg) ==
    IF reverse(name, kwargs)
    THEN Resp(view, user, "redirect", name, arg, {})
    ELSE ServerError(view, user)

NoResponse == Resp("", Anonymous, "", "", NULL, {})

\* ------------------------------------------------------------ models.py
Date(t) == t \div TicksPerDay

CategoryPublished(c) == c \in DOMAIN categories /\ categories[c].is_published

\* PostQuerySet.published: the filter of the `published` manager
published(p) ==
    /\ posts[p].is_published
    /\ Date(posts[p].pub_date) <= Date(now)
    /\ CategoryPublished(posts[p].category)

\* on_delete rules, applied to the rows P (posts) and C (comments)
CascadePosts(P, ids) == Without(P, ids)

CascadeComments(C, P, ids, authors) ==
    Without(C, {c \in DOMAIN C : C[c].post \in ids \/ C[c].author \in authors})

\* variant: the category reference declared with on_delete=CASCADE
SetNullCategory_Cascade(P, c) == Without(P, {p \in DOMAIN P : P[p].category = c})

SetNullCategory(P, c) ==
    [p \in DOMAIN P |-> IF P[p].category = c
                         THEN [P[p] EXCEPT !.category = NULL] ELSE P[p]]

SetNullLocation(P, l) ==
    [p \in DOMAIN P |-> IF P[p].location = l
                         THEN [P[p] EXCEPT !.location = NULL] ELSE P[p]]

UserByName(name) == {u \in DOMAIN users : users[u].username = name}

\* ------------------------------------------------------------- views.py
\* variant: the view relies on the manager's __date comparison alone
PostsListQuerySet_DateOnly ==
    {p \in DOMAIN posts : published(p) /\ posts[p].is_published}

\* variant: pub_date__lt instead of pub_date__lte
PostsListQuerySet_Strict ==
    {p \in DOMAIN posts :
        published(p) /\ posts[p].is_published /\ posts[p].pub_date < now}

\* PostsListView.get_queryset
PostsListQuerySet ==
    {p \in DOMAIN posts :
        published(p) /\ posts[p].is_published /\ posts[p].pub_date <= now}

PostsListView(user) == Ok("index", user, PostsListQuerySet)

\* variant: the category feed without the is_published filter
CategoryQuerySet_AnyFlag(c) ==
    {p \in DOMAIN posts : posts[p].category = c /\ posts[p].pub_date <= now}

\* CategoryPostsView.get_queryset (for a category that exists)
CategoryQuerySet(c) ==
    {p \in DOMAIN posts :
        posts[p].category = c /\ posts[p].is_published /\ posts[p].pub_date <= now}

\* CategoryPostsView: get_queryset, then get_context_data
CategoryPostsView(user, kwargs) ==
    LET slug == kwargs["category_slug"]
    IN  IF slug \notin DOMAIN categories THEN NotFound("category_posts", user)
        ELSE IF ~categories[slug].is_published THEN NotFound("category_posts", user)
        ELSE Ok("category_posts", user, CategoryQuerySet(slug))

\* ProfileListView.get_queryset
ProfileQuerySet(author) == {p \in DOMAIN posts : posts[p].author = author}

ProfileListView(user, kwargs) ==
    LET found == UserByName(kwargs["username"])
    IN  IF found = {} THEN NotFound("profile", user)
        ELSE Ok("profile", user, ProfileQuerySet(CHOOSE u \in found : TRUE))

\* the outcome of a request: the response and the rows after it
Outcome(resp, U, P, C, np, nc) ==
    [resp |-> resp, users |-> U, posts |-> P, comments |-> C,
     next_post |-> np, next_comment |-> nc]

Unchanged(resp) == Outcome(resp, users, posts, comments, next_post, next_comment)

\* LoginRequiredMixin / request.user.is_authenticated
is_authenticated(user) == user # Anonymous

\* get_filter().filter(pk=pk): the rows any viewer may see
get_filter(pk) ==
    {p \in DOMAIN posts :
        /\ p = pk
        /\ posts[p].pub_date <= now
        /\ posts[p].is_published
        /\ CategoryPublished(posts[p].category)}

\* user_post_filter().filter(pk=pk): no visibility filter
user_post_filter(pk) == {p \in DOMAIN posts : p = pk}

\* PostDetailView.get_queryset followed by SingleObjectMixin.get_object
PostDetailView(user, kwargs) ==
    IF "pk" \notin DOMAIN kwargs THEN ServerError("post_detail", user)
    ELSE LET pk == kwargs["pk"]
         IN  IF pk \notin DOMAIN posts THEN NotFound("post_detail", user)
             ELSE LET queryset == IF posts[pk].author = user
                                  THEN user_post_filter(pk)
                                  ELSE get_filter(pk)
                  IN  IF queryset = {} THEN NotFound("post_detail", user)
                      ELSE Ok("post_detail", user, queryset)

\* forms.py PostForm: every model field but author.  category and location
\* are required choices among the existing rows (NULL is the blank choice);
\* is_published is a checkbox that may be left unchecked.
PostForms ==
    [category : CategoryIds \cup {NULL}, location : LocationIds \cup {NULL},
     is_published : BOOLEAN, pub_date : Times]

PostFormValid(form) ==
    form.category \in DOMAIN categories /\ form.location \in locations

\* PostsReverseMixin.form_valid + ModelFormMixin.form_valid: stamp the
\* author, save the row
PostFormSave(P, pk, form, user) ==
    With(P, pk, [author |-> user, category |-> form.category,
                 location |-> form.location,
                 is_published |-> form.is_published,
                 pub_date |-> form.pub_date])

\* Post.get_absolute_url
get_absolute_url(view, user, author) ==
    Redirect(view, user, "profile",
             [username |-> users[author].username], users[author].username)

\* PostCreateView (POST)
PostCreateView(user, form) ==
    IF ~is_authenticated(user) THEN Unchanged(ToLogin("create_post", user))
    ELSE IF ~PostFormValid(form) THEN Unchanged(Ok("create_post", user, {}))
    ELSE Outcome(get_absolute_url("create_post", user, user), users,
                 PostFormSave(posts, next_post, form, user), comments,
                 next_post + 1, next_comment)

\* variant: dispatch without the comparison of the author with the requester
PostUpdateView_NoAuthorCheck(user, kwargs, form) ==
    IF "pk" \notin DOMAIN kwargs THEN Unchanged(ServerError("edit_post", user))
    ELSE LET pk == kwargs["pk"]
         IN  IF pk \notin DOMAIN posts THEN Unchanged(NotFound("edit_post", user))
             ELSE IF ~PostFormValid(form) THEN Unchanged(Ok("edit_post", user, {pk}))
             ELSE Outcome(ServerError("edit_post", user), users,
                          PostFormSave(posts, pk, form, user), comments,
                          next_post, next_comment)

\* PostUpdateView.dispatch (POST)
PostUpdateView(user, kwargs, form) ==
    IF "pk" \notin DOMAIN kwargs THEN Unchanged(ServerError("edit_post", user))
    ELSE LET pk == kwargs["pk"]
         IN  IF pk \notin DOMAIN posts THEN Unchanged(NotFound("edit_post", user))
             ELSE IF posts[pk].author # user
             THEN Unchanged(Redirect("edit_post", user, "post_detail",
                                     [pk |-> Get(kwargs, "pk")], pk))
             ELSE IF ~PostFormValid(form) THEN Unchanged(Ok("edit_post", user, {pk}))
             ELSE Outcome(get_absolute_url("edit_post", user, user), users,
                          PostFormSave(posts, pk, form, user), comments,
                          next_post, next_comment)

\* OnlyAuthorMixin.test_func and UserPassesTestMixin.handle_no_permission
\* (403 for a logged-in user, the login page otherwise), then
\* DeletionMixin.delete: the success url, then the row and its comments
PostDeleteView(user, kwargs) ==
    IF "pk" \notin DOMAIN kwargs THEN Unchanged(ServerError("delete_post", user))
    ELSE LET pk == kwargs["pk"]
         IN  IF pk \notin DOMAIN posts THEN Unchanged(NotFound("delete_post", user))
             ELSE IF posts[pk].author # user
             THEN IF is_authenticated(user)
                  THEN Unchanged(Forbidden("delete_post", user))
                  ELSE Unchanged(ToLogin("delete_post", user))
             ELSE Outcome(Redirect("delete_post", user, "profile",
                                   [username |-> users[user].username],
                                   users[user].username),
                          users, CascadePosts(posts, {pk}),
                          CascadeComments(comments, posts, {pk}, {}),
                          next_post, next_comment)

\* forms.py CommentForm: the text only; a blank text does not validate
CommentForms == [text : Texts \cup {BLANK}]

CommentFormValid(form) == form.text # BLANK

\* CommentCreateView (POST)
CommentCreateView(user, kwargs, form) ==
    IF ~is_authenticated(user) THEN Unchanged(ToLogin("add_comment", user))
    ELSE IF ~CommentFormValid(form) THEN Unchanged(Ok("add_comment", user, {}))
    ELSE IF "pk" \notin DOMAIN kwargs THEN Unchanged(ServerError("add_comment", user))
    ELSE LET pk == kwargs["pk"]
         IN  IF pk \notin DOMAIN posts THEN Unchanged(NotFound("add_comment", user))
             ELSE Outcome(Redirect("add_comment", user, "post_detail",
                                   [pk |-> pk], pk),
                          users, posts,
                          With(comments, next_comment,
                               [post |-> pk, author |-> user, text |-> form.text]),
                          next_post, next_comment + 1)

\* variant: the queryset of all comments, whoever wrote them
CommentQuerySet_All(user) == DOMAIN comments

\* CommentPostMixin.get_queryset
CommentQuerySet(user) == {c \in DOMAIN comments : comments[c].author = user}

\* CommentPostMixin.get_success_url
CommentSuccessUrl(view, user, c) ==
    Redirect(view, user, "post_detail", [pk |-> comments[c].post], comments[c].post)

\* CommentUpdateView (POST): the row is saved before the success url is built
CommentUpdateView(user, kwargs, form) ==
    IF ~is_authenticated(user) THEN Unchanged(ToLogin("edit_comment", user))
    ELSE IF "comment_id" \notin DOMAIN kwargs
    THEN Unchanged(ServerError("edit_comment", user))
    ELSE LET c == kwargs["comment_id"]
         IN  IF c \notin CommentQuerySet(user)
             THEN Unchanged(NotFound("edit_comment", user))
             ELSE IF ~CommentFormValid(form)
             THEN Unchanged(Ok("edit_comment", user, {}))
             ELSE Outcome(CommentSuccessUrl("edit_comment", user, c), users, posts,
                          [comments EXCEPT ![c].text = form.text],
                          next_post, next_comment)

\* CommentDeleteView (POST): the success url is built before the row is deleted
CommentDeleteView(user, kwargs) ==
    IF ~is_authenticated(user) THEN Unchanged(ToLogin("delete_comment", user))
    ELSE IF "comment_id" \notin DOMAIN kwargs
    THEN Unchanged(ServerError("delete_comment", user))
    ELSE LET c == kwargs["comment_id"]
         IN  IF c \notin CommentQuerySet(user)
             THEN Unchanged(NotFound("delete_comment", user))
             ELSE IF CommentSuccessUrl("delete_comment", user, c).status = "error"
             THEN Unchanged(ServerError("delete_comment", user))
             ELSE Outcome(CommentSuccessUrl("delete_comment", user, c), users, posts,
                          Without(comments, {c}), next_post, next_comment)

\* forms.py ProfileForm: the username must not belong to another user
ProfileForms == [username : Names]

ProfileFormValid(user, form) ==
    \A u \in DOMAIN users : users[u].username = form.username => u = user

\* ProfileUpdateView (POST): the success url uses the requester's old name
ProfileUpdateView(user, form) ==
    IF ~is_authenticated(user) THEN Unchanged(ToLogin("edit_profile", user))
    ELSE IF ~ProfileFormValid(user, form)
    THEN Unchanged(Ok("edit_profile", user, {}))
    ELSE Outcome(Redirect("edit_profile", user, "profile",
                          [username |-> users[user].username],
                          users[user].username),
                 [users EXCEPT ![user].username = form.username],
                 posts, comments, next_post, next_comment)

\* ----------------------------------------------------------------- state
TypeOK ==
    /\ DOMAIN users \subseteq UserIds
    /\ DOMAIN categories \subseteq CategoryIds
    /\ locations \subseteq LocationIds
    /\ DOMAIN posts \subseteq PostIds
    /\ DOMAIN comments \subseteq CommentIds
    /\ now \in Times

Init ==
    /\ users = [u \in UserIds |-> [username |-> u]]
    /\ categories = [c \in CategoryIds |-> [is_published |-> TRUE]]
    /\ locations = LocationIds
    /\ posts = <<>>
    /\ comments = <<>>
    /\ next_post = 1
    /\ next_comment = 1
    /\ now = 0
    /\ response = NoResponse

Requesters == DOMAIN users \cup {Anonymous}

\* a request whose outcome is `out` is served; the request actions below
\* take each distinct outcome of the requests a client can send
Serve(out) ==
    /\ out.next_post <= MaxPosts + 1
    /\ out.next_comment <= MaxComments + 1
    /\ response' = out.resp
    /\ users' = out.users
    /\ posts' = out.posts
    /\ comments' = out.comments
    /\ next_post' = out.next_post
    /\ next_comment' = out.next_comment
    /\ UNCHANGED <<categories, locations, now>>

\* the clock advances
Tick ==
    /\ now < MaxTime
    /\ now' = now + 1
    /\ response' = NoResponse
    /\ UNCHANGED <<users, categories, locations, posts, comments, next_post, next_comment>>

\* GET /
GetIndex ==
    \E user \in Requesters : Serve(Unchanged(PostsListView(user)))

\* GET /category/<slug>/
GetCategory ==
    \E user \in Requesters, slug \in CategoryIds :
        Serve(Unchanged(CategoryPostsView(user, resolve("category_posts", slug, NULL))))

\* GET /profile/<username>/
GetProfile ==
    \E user \in Requesters, name \in Names :
        Serve(Unchanged(ProfileListView(user, resolve("profile", name, NULL))))

\* GET /posts/<id>/
GetPostDetail ==
    \E user \in Requesters, pk \in PostIds :
        Serve(Unchanged(PostDetailView(user, resolve("post_detail", pk, NULL))))

\* POST /posts/create/
PostCreate ==
    \E out \in {PostCreateView(user, form) :
                    user \in Requesters, form \in PostForms} :
        Serve(out)

\* POST /posts/<id>/edit/
PostUpdate ==
    \E out \in {PostUpdateView(user, resolve("edit_post", pk, NULL), form) :
                    user \in Requesters, pk \in PostIds, form \in PostForms} :
        Serve(out)

\* POST /posts/<id>/delete/
PostDelete ==
    \E out \in {PostDeleteView(user, resolve("delete_post", pk, NULL)) :
                    user \in Requesters, pk \in PostIds} :
        Serve(out)

\* POST /posts/<id>/comment/
CommentCreate ==
    \E out \in {CommentCreateView(user, resolve("add_comment", pk, NULL), form) :
                    user \in Requesters, pk \in PostIds, form \in CommentForms} :
        Serve(out)

\* POST /posts/<id>/edit_comment/<comment_id>
CommentUpdate ==
    \E out \in {CommentUpdateView(user, resolve("edit_comment", pk, c), form) :
                    user \in Requesters, pk \in PostIds, c \in CommentIds,
                    form \in CommentForms} :
        Serve(out)

\* POST /posts/<id>/delete_comment/<comment_id>
CommentDelete ==
    \E out \in {CommentDeleteView(user, resolve("delete_comment", pk, c)) :
                    user \in Requesters, pk \in PostIds, c \in CommentIds} :
        Serve(out)

\* POST /edit/
ProfileUpdate ==
    \E out \in {ProfileUpdateView(user, form) :
                    user \in Requesters, form \in ProfileForms} :
        Serve(out)

\* ---- rows written outside the views (the data layer of models.py) ----
Stored(resp) ==
    /\ response' = resp
    /\ UNCHANGED <<next_post, now>>

\* Comment(post, author, text).save()
SaveComment ==
    \E p \in DOMAIN posts, u \in DOMAIN users, t \in Texts :
        /\ next_comment <= MaxComments
        /\ comments' = With(comments, next_comment,
                            [post |-> p, author |-> u, text |-> t])
        /\ next_comment' = next_comment + 1
        /\ Stored(NoResponse)
        /\ UNCHANGED <<users, categories, locations, posts>>

\* PublishedModel.is_published of a post is switched
SetPostPublished ==
    \E p \in DOMAIN posts :
        /\ posts' = [posts EXCEPT ![p].is_published = ~@]
        /\ Stored(NoResponse)
        /\ UNCHANGED <<users, categories, locations, comments, next_comment>>

\* PublishedModel.is_published of a category is switched
SetCategoryPublished ==
    \E c \in DOMAIN categories :
        /\ categories' = [categories EXCEPT ![c].is_published = ~@]
        /\ Stored(NoResponse)
        /\ UNCHANGED <<users, locations, posts, comments, next_comment>>

\* Category.delete(): Post.category is SET_NULL
DeleteCategory ==
    \E c \in DOMAIN categories :
        /\ categories' = Without(categories, {c})
        /\ posts' = SetNullCategory(posts, c)
        /\ Stored(NoResponse)
        /\ UNCHANGED <<users, locations, comments, next_comment>>

\* Location.delete(): Post.location is SET_NULL
DeleteLocation ==
    \E l \in locations :
        /\ locations' = locations \ {l}
        /\ posts' = SetNullLocation(posts, l)
        /\ Stored(NoResponse)
        /\ UNCHANGED <<users, categories, comments, next_comment>>

\* Post.delete(): Comment.post is CASCADE
DeletePost ==
    \E p \in DOMAIN posts :
        /\ posts' = CascadePosts(posts, {p})
        /\ comments' = CascadeComments(comments, posts, {p}, {})
        /\ Stored(NoResponse)
        /\ UNCHANGED <<users, categories, locations, next_comment>>

\* User.delete(): Post.author and Comment.author are CASCADE
DeleteUser ==
    \E u \in DOMAIN users :
        LET gone == {p \in DOMAIN posts : posts[p].author = u}
        IN  /\ users' = Without(users, {u})
            /\ posts' = CascadePosts(posts, gone)
            /\ comments' = CascadeComments(comments, posts, gone, {u})
            /\ Stored(NoResponse)
            /\ UNCHANGED <<categories, locations, next_comment>>

Next ==
    \/ Tick
    \/ GetIndex
    \/ GetCategory
    \/ GetProfile
    \/ GetPostDetail
    \/ PostCreate
    \/ PostUpdate
    \/ PostDelete
    \/ CommentCreate
    \/ CommentUpdate
    \/ CommentDelete
    \/ ProfileUpdate
    \/ SaveComment
    \/ SetPostPublished
    \/ SetCategoryPublished
    \/ DeleteCategory
    \/ DeleteLocation
    \/ DeletePost
    \/ DeleteUser

Spec == Init /\ [][Next]_vars

\* the reading side: every operation that changes a post, a category, a
\* user or the clock, and the four read views
NextFeeds ==
    \/ Tick
    \/ GetIndex
    \/ GetCategory
    \/ GetProfile
    \/ GetPostDetail
    \/ PostCreate
    \/ PostUpdate
    \/ PostDelete
    \/ SetPostPublished
    \/ SetCategoryPublished
    \/ DeleteCategory
    \/ DeletePost
    \/ DeleteUser

SpecFeeds == Init /\ [][NextFeeds]_vars

\* the writing side: every request that creates, edits or deletes, and the
\* comments saved through the data layer
NextWrites ==
    \/ PostCreate
    \/ PostUpdate
    \/ PostDelete
    \/ CommentCreate
    \/ CommentUpdate
    \/ CommentDelete
    \/ ProfileUpdate
    \/ SaveComment

SpecWrites == Init /\ [][NextWrites]_vars

\* the data layer: every operation that adds or removes a row
NextRows ==
    \/ PostCreate
    \/ PostUpdate
    \/ PostDelete
    \/ CommentCreate
    \/ CommentUpdate
    \/ CommentDelete
    \/ SaveComment
    \/ DeleteCategory
    \/ DeleteLocation
    \/ DeletePost
    \/ DeleteUser

SpecRows == Init /\ [][NextRows]_vars

\* ======================================================================
\* Properties
\* ======================================================================

\* the public-visibility predicate of the data model
Visible(p) ==
    /\ posts[p].is_published
    /\ posts[p].pub_date <= now
    /\ posts[p].category \in DOMAIN categories
    /\ categories[posts[p].category].is_published

\* the kwargs of a route that carries a post id: as the URLconf builds them,
\* and as the views read them
PostKwargs(name, pk) == {resolve(name, pk, NULL), [pk |-> pk]}

IndexFeed(u) == PostsListView(u).objects

CategoryFeed(u, slug) ==
    CategoryPostsView(u, resolve("category_posts", slug, NULL)).objects

\* ---------------------------------------------------------------- C1
\* C1: every post listed by GET / or by GET /category/<slug>/, for every
\* viewer, is published, has pub_date <= now and lies in a published
\* category.
C1_FeedsListOnlyVisible ==
    \A u \in Requesters :
        /\ \A p \in IndexFeed(u) : p \in DOMAIN posts /\ Visible(p)
        /\ \A slug \in CategoryIds :
               \A p \in CategoryFeed(u, slug) : p \in DOMAIN posts /\ Visible(p)

\* a feed was served that lists one post while a scheduled post, a hidden
\* post or a post of a hidden category exists and is left out
C1_Witness ==
    /\ response.view \in {"index", "category_posts"}
    /\ response.status = "ok"
    /\ response.objects # {}
    /\ \E q \in DOMAIN posts \ response.objects :
           posts[q].is_published /\ posts[q].pub_date > now

\* ---------------------------------------------------------------- C7
C7_Listed ==
    \A p \in DOMAIN posts : \A u \in Requesters :
        Visible(p) =>
            /\ p \in IndexFeed(u)
            /\ p \in CategoryFeed(u, posts[p].category)

C7_Hide ==
    \A p \in DOMAIN posts : \A u \in Requesters :
        ( /\ Visible(p)
          /\ posts' = [posts EXCEPT ![p].is_published = FALSE]
          /\ categories' = categories
          /\ now' = now )
        => /\ p \notin (IndexFeed(u))'
           /\ p \notin (CategoryFeed(u, posts[p].category))'

\* C7: a published post with pub_date <= now in a published category is
\* listed by GET / and by the feed of its category; once its is_published
\* alone is set to false it is listed by neither.
C7_PublishedListedHiddenGone == [](C7_Listed) /\ [][C7_Hide]_vars

\* a feed is served while a post that is due and in a published category
\* is hidden, and leaves it out
C7_Witness ==
    /\ response.view \in {"index", "category_posts"}
    /\ response.status = "ok"
    /\ \E p \in DOMAIN posts :
           /\ ~posts[p].is_published
           /\ posts[p].pub_date <= now
           /\ CategoryPublished(posts[p].category)
           /\ p \notin response.objects

\* ---------------------------------------------------------------- C8
C8_Schedule ==
    \A p \in DOMAIN posts : \A u \in Requesters :
        (posts[p].is_published /\ CategoryPublished(posts[p].category))
        => (p \in IndexFeed(u) <=> posts[p].pub_date <= now)

\* a primary key that was given out and whose row is gone
Deleted(p) == p < next_post /\ p \notin DOMAIN posts

C8_Gone ==
    \A p \in PostIds : \A u \in Requesters :
        Deleted(p) =>
            /\ p \notin IndexFeed(u)
            /\ \A slug \in CategoryIds : p \notin CategoryFeed(u, slug)
            /\ \A kw \in PostKwargs("post_detail", p) :
                   PostDetailView(u, kw).status # "ok"

C8_StaysGone == \A p \in PostIds : Deleted(p) => Deleted(p)'

\* C8: a published post of a published category is listed by GET / exactly
\* when pub_date <= now, with no operation in between; a deleted post is
\* never listed or retrieved again.
C8_ScheduledThenListedDeletedGone ==
    [](C8_Schedule /\ C8_Gone) /\ [][C8_StaysGone]_vars

\* the clock reached the pub_date of a scheduled post, which is now listed,
\* and an earlier post has been deleted
C8_Witness ==
    /\ response.view = "index"
    /\ \E p \in response.objects : posts[p].pub_date = now /\ now > 0
    /\ \E q \in PostIds : Deleted(q)

\* ---------------------------------------------------------------- C2
\* C2: GET /profile/<username>/ lists every post of the author when the
\* requester is the author, and only the visible ones for anybody else.
C2_ProfileFeedByViewer ==
    \A u \in Requesters : \A name \in Names : \A a \in UserByName(name) :
        LET r == ProfileListView(u, resolve("profile", name, NULL))
            own == {p \in DOMAIN posts : posts[p].author = a}
        IN  /\ r.status = "ok"
            /\ r.objects = IF u = a THEN own ELSE {p \in own : Visible(p)}

\* ---------------------------------------------------------------- C9
\* C9: GET /posts/<id>/ returns an existing post to its author always, to
\* anybody else only when it is visible, and is not-found otherwise and for
\* a missing id.
C9_DetailByViewer ==
    \A u \in Requesters : \A pk \in PostIds :
        LET r == PostDetailView(u, resolve("post_detail", pk, NULL))
        IN  IF pk \in DOMAIN posts /\ (posts[pk].author = u \/ Visible(pk))
            THEN r.status = "ok" /\ r.objects = {pk}
            ELSE r.status = "not_found"

\* ------------------------------------------------------- C3, C4, C5, C10
NoMutation(out) ==
    /\ out.users = users
    /\ out.posts = posts
    /\ out.comments = comments
    /\ out.next_post = next_post
    /\ out.next_comment = next_comment

CommentKwargs(name, c) ==
    {resolve(name, pk, c) : pk \in PostIds}

\* C3: an edit or delete request on a post or comment by anybody but its
\* author (another user or an anonymous one) leaves every row as it was.
C3_NonAuthorNoMutation ==
    \A u \in Requesters :
        /\ \A pk \in DOMAIN posts : posts[pk].author # u =>
               /\ \A kw \in PostKwargs("edit_post", pk) : \A form \in PostForms :
                      NoMutation(PostUpdateView(u, kw, form))
               /\ \A kw \in PostKwargs("delete_post", pk) :
                      NoMutation(PostDeleteView(u, kw))
        /\ \A c \in DOMAIN comments : comments[c].author # u =>
               /\ \A kw \in CommentKwargs("edit_comment", c) : \A form \in CommentForms :
                      NoMutation(CommentUpdateView(u, kw, form))
               /\ \A kw \in CommentKwargs("delete_comment", c) :
                      NoMutation(CommentDeleteView(u, kw))

\* a logged-in user asked to edit a comment that is not among their own and
\* was answered not-found; the comment is intact
C3_Witness ==
    /\ response.view = "edit_comment"
    /\ response.status = "not_found"
    /\ comments # <<>>

RedirectsToDetail(r, pk) ==
    r.status = "redirect" /\ r.to = "post_detail" /\ r.arg = pk

\* C4: each of post edit, post delete, comment edit, comment delete, asked
\* by an authenticated user who is not the author of the existing record,
\* is answered with a redirect to the detail view of the post concerned.
C4_NonAuthorRedirected ==
    \A u \in DOMAIN users :
        /\ \A pk \in DOMAIN posts : posts[pk].author # u =>
               /\ \A form \in PostForms :
                      RedirectsToDetail(
                          PostUpdateView(u, resolve("edit_post", pk, NULL), form).resp, pk)
               /\ RedirectsToDetail(
                      PostDeleteView(u, resolve("delete_post", pk, NULL)).resp, pk)
        /\ \A c \in DOMAIN comments : comments[c].author # u =>
               LET kw(name) == resolve(name, comments[c].post, c)
               IN  /\ \A form \in CommentForms :
                          RedirectsToDetail(
                              CommentUpdateView(u, kw("edit_comment"), form).resp,
                              comments[c].post)
                   /\ RedirectsToDetail(
                          CommentDeleteView(u, kw("delete_comment")).resp,
                          comments[c].post)

ToLoginUnchanged(out) ==
    out.resp.status = "redirect" /\ out.resp.to = "login" /\ NoMutation(out)

\* C5: every create, edit or delete request of an unauthenticated user is
\* answered with a redirect to the login flow and changes no row.
C5_AnonymousToLogin ==
    /\ \A form \in PostForms : ToLoginUnchanged(PostCreateView(Anonymous, form))
    /\ \A form \in ProfileForms : ToLoginUnchanged(ProfileUpdateView(Anonymous, form))
    /\ \A pk \in PostIds :
           /\ \A form \in PostForms :
                  ToLoginUnchanged(
                      PostUpdateView(Anonymous, resolve("edit_post", pk, NULL), form))
           /\ ToLoginUnchanged(
                  PostDeleteView(Anonymous, resolve("delete_post", pk, NULL)))
           /\ \A form \in CommentForms :
                  ToLoginUnchanged(
                      CommentCreateView(Anonymous, resolve("add_comment", pk, NULL), form))
           /\ \A c \in CommentIds :
                  /\ \A form \in CommentForms :
                         ToLoginUnchanged(
                             CommentUpdateView(Anonymous,
                                               resolve("edit_comment", pk, c), form))
                  /\ ToLoginUnchanged(
                         CommentDeleteView(Anonymous, resolve("delete_comment", pk, c)))

\* what each handler writes into the author (and post) of a row
C10_Stamp ==
    \A u \in Requesters :
        /\ \A form \in PostForms :
               LET out == PostCreateView(u, form)
               IN  \A p \in DOMAIN out.posts \ DOMAIN posts :
                       out.posts[p].author = u /\ is_authenticated(u)
        /\ \A pk \in PostIds :
               /\ \A kw \in PostKwargs("add_comment", pk) : \A form \in CommentForms :
                      LET out == CommentCreateView(u, kw, form)
                      IN  \A c \in DOMAIN out.comments \ DOMAIN comments :
                              /\ out.comments[c].author = u
                              /\ out.comments[c].post = pk
               /\ \A kw \in PostKwargs("edit_post", pk) : \A form \in PostForms :
                      LET out == PostUpdateView(u, kw, form)
                      IN  pk \in DOMAIN posts =>
                              /\ pk \in DOMAIN out.posts
                              /\ out.posts[pk].author = posts[pk].author

C10_Step ==
    /\ \A p \in DOMAIN posts \cap DOMAIN posts' :
           posts'[p].author = posts[p].author
    /\ \A c \in DOMAIN comments \cap DOMAIN comments' :
           /\ comments'[c].author = comments[c].author
           /\ comments'[c].post = comments[c].post

\* C10: a created post or comment gets author = the requester (a comment
\* also the post of the path), and no request ever changes the author of an
\* existing post or comment, the post edit handler included.
C10_AuthorFixed == [](C10_Stamp) /\ [][C10_Step]_vars

\* both users have created a post, and the last request created one
C10_Witness ==
    /\ response.view = "create_post"
    /\ response.status = "redirect"
    /\ \E p, q \in DOMAIN posts :
           /\ p = next_post - 1
           /\ posts[q].author # posts[p].author

\* ---------------------------------------------------------------- C6
C6_References ==
    /\ \A c \in DOMAIN comments :
           comments[c].post \in DOMAIN posts /\ comments[c].author \in DOMAIN users
    /\ \A p \in DOMAIN posts :
           /\ posts[p].author \in DOMAIN users
           /\ posts[p].category # NULL => posts[p].category \in DOMAIN categories
           /\ posts[p].location # NULL => posts[p].location \in locations

C6_DeleteCategory ==
    \A c \in DOMAIN categories \ DOMAIN categories' :
        /\ DOMAIN posts' = DOMAIN posts
        /\ \A p \in DOMAIN posts :
               posts'[p] = IF posts[p].category = c
                           THEN [posts[p] EXCEPT !.category = NULL] ELSE posts[p]

C6_DeleteLocation ==
    \A l \in locations \ locations' :
        /\ DOMAIN posts' = DOMAIN posts
        /\ \A p \in DOMAIN posts :
               posts'[p] = IF posts[p].location = l
                           THEN [posts[p] EXCEPT !.location = NULL] ELSE posts[p]

C6_DeletePost ==
    (DOMAIN users' = DOMAIN users /\ DOMAIN posts' # DOMAIN posts /\ next_post' = next_post)
    => /\ DOMAIN comments' =
              {c \in DOMAIN comments : comments[c].post \in DOMAIN posts'}
       /\ \A c \in DOMAIN comments' : comments'[c] = comments[c]

C6_DeleteUser ==
    \A u \in DOMAIN users \ DOMAIN users' :
        /\ DOMAIN posts' = {p \in DOMAIN posts : posts[p].author # u}
        /\ DOMAIN comments' =
               {c \in DOMAIN comments :
                    comments[c].author # u /\ posts[comments[c].post].author # u}

\* C6: deleting a category (location) keeps its posts and nulls their
\* reference; deleting a post deletes exactly its comments; deleting a user
\* deletes the user's posts and comments; every comment references an
\* existing post and author, every non-null category an existing category.
C6_ReferentialIntegrity ==
    /\ [](C6_References)
    /\ [][C6_DeleteCategory /\ C6_DeleteLocation /\ C6_DeletePost /\ C6_DeleteUser]_vars

\* the category and the location are deleted and a post outlives them with
\* null references, while the comment of a deleted post is gone with it
C6_Witness ==
    /\ categories = <<>>
    /\ locations = {}
    /\ \E p \in DOMAIN posts : posts[p].category = NULL /\ posts[p].location = NULL
    /\ \E q \in PostIds : Deleted(q)
    /\ next_comment > 1
    /\ comments = <<>>
====
